---- MODULE Spec2Model ----
(***************************************************************************)
(* convertpdf.py: one run of main() over a small file tree.               *)
(*                                                                         *)
(* A file name is the sequence of its dot-separated parts ("a.ocr.pdf" is  *)
(* <<"a","ocr","pdf">>), a path is a sequence of names relative to the     *)
(* working directory, and the file tree fs maps every existing path to a   *)
(* directory entry or to a file entry with its content.                    *)
(***************************************************************************)
EXTENDS Integers, Sequences, FiniteSets, TLC

VARIABLES
    args,       \* argparse.Namespace: inputs, output_dir, recursive, ocr, config
    cfgfile,    \* the file args.config names: suffix, state on disk, text
    yaml_ok,    \* whether "import yaml" succeeds in this environment
    openvino,   \* whether importlib finds an openvino module
    fs,         \* the file tree
    fs0,        \* the file tree when main() was entered
    pc,         \* position in main()
    config,     \* main's local config
    settings,   \* main's locals output_dir, recursive, ocr
    next,       \* collect_pdfs: index of the input the loop is at
    pdfs,       \* collect_pdfs' collected / main's pdfs
    i,          \* main: index of the task the for loop is at
    log,        \* records emitted through LOG
    ret,        \* <<code>> once main() has returned code, <<>> before
    exc         \* exception propagating out of main() ("none" if none)

vars == <<args, cfgfile, yaml_ok, openvino, fs, fs0, pc, config, settings, next, pdfs, i, log, ret, exc>>

\* ----------------------------------------------------------------- bounds
MaxInputs == 2
MaxFiles == 2

\* ------------------------------------------------------- names and paths
Lower(s) == CASE s = "PDF" -> "pdf"
              [] s = "YML" -> "yml"
              [] OTHER -> s

\* PurePath.suffix: the text from the last dot on, "" when the name has no
\* dot, starts with its only dot or ends with a dot.
Suffix(name) ==
    IF Len(name) >= 2 /\ name[Len(name)] # "" /\ ~(Len(name) = 2 /\ name[1] = "")
    THEN name[Len(name)] ELSE ""

\* PurePath.stem: the name without its suffix.
Stem(name) == IF Suffix(name) = "" THEN name ELSE SubSeq(name, 1, Len(name) - 1)

Name(p) == p[Len(p)]
Parent(p) == IF Len(p) = 0 THEN p ELSE SubSeq(p, 1, Len(p) - 1)
Join(p, q) == p \o q
IsPrefix(p, q) == Len(p) <= Len(q) /\ SubSeq(q, 1, Len(p)) = p

\* PurePath.with_suffix(".ext")
WithSuffix(p, ext) == Parent(p) \o <<Stem(Name(p)) \o <<ext>>>>

\* output_pdf.with_name(f"{output_pdf.stem}.ocr.pdf")
OcrPdfPath(p) == Parent(p) \o <<Stem(Name(p)) \o <<"ocr", "pdf">>>>

\* pdf_path.relative_to(base_dir), and on ValueError the name built from the
\* stem, a hash of the path and the suffix (<<"#hash">> stands for the hash)
RelativeTo(p, base) ==
    IF IsPrefix(base, p) THEN SubSeq(p, Len(base) + 1, Len(p))
    ELSE <<Stem(Name(p)) \o <<"#hash">> \o <<Suffix(Name(p))>>>>

\* ------------------------------------------------------------- file tree
DirEntry == [kind |-> "dir", data |-> [fmt |-> "", src |-> <<>>, status |-> ""]]
FileEntry(d) == [kind |-> "file", data |-> d]
Bytes(p) == [fmt |-> "bytes", src |-> p, status |-> ""]

Exists(f, p) == p = <<>> \/ p \in DOMAIN f
IsDir(f, p) == p = <<>> \/ (p \in DOMAIN f /\ f[p].kind = "dir")
IsFile(f, p) == p \in DOMAIN f /\ f[p].kind = "file"

Put(f, p, e) == [q \in DOMAIN f \cup {p} |-> IF q = p THEN e ELSE f[q]]
Remove(f, p) == [q \in DOMAIN f \ {p} |-> f[q]]

Prefixes(p) == {SubSeq(p, 1, k) : k \in 1..Len(p)}

\* --------------------------------------------------------- Python values
None == [t |-> "NoneType", v |-> <<>>]
Bool(b) == [t |-> "bool", v |-> b]
Str(p) == [t |-> "str", v |-> p]
PyInt(n) == [t |-> "int", v |-> n]
List(s) == [t |-> "list", v |-> s]
Dict(d) == [t |-> "dict", v |-> d]
EmptyDict == Dict(<<>>)

\* bool(x), as "x or {}" and "if recursive" / "if ocr" / "if args.config" apply it
Truthy(x) ==
    CASE x.t = "NoneType" -> FALSE
      [] x.t = "bool" -> x.v
      [] x.t = "int" -> x.v # 0
      [] x.t = "str" -> x.v # <<>>
      [] x.t = "list" -> Len(x.v) > 0
      [] x.t = "dict" -> DOMAIN x.v # {}

Or(x, y) == IF Truthy(x) THEN x ELSE y

\* ---------------------------------------------------------- config files
Returned(val) == [raised |-> "none", val |-> val]
Raised(e) == [raised |-> e, val |-> None]

ConfigOutput == <<<<"cfgout">>>>

\* json.loads(text) on the texts of ConfigTexts
JsonLoads(text) ==
    CASE text = "null" -> Returned(None)
      [] text = "{}" -> Returned(EmptyDict)
      [] text = "[]" -> Returned(List(<<>>))
      [] text = "[1]" -> Returned(List(<<1>>))
      [] text = "0" -> Returned(PyInt(0))
      [] text = "7" -> Returned(PyInt(7))
      [] text = "{\"ocr\": true}" -> Returned(Dict([ocr |-> Bool(TRUE)]))
      [] text = "{\"recursive\": true, \"extra\": 1}" ->
            Returned(Dict([recursive |-> Bool(TRUE), extra |-> PyInt(1)]))
      [] text = "{\"output_dir\": \"cfgout\"}" -> Returned(Dict([output_dir |-> Str(ConfigOutput)]))
      [] text = "{\"output_dir\": null}" -> Returned(Dict([output_dir |-> None]))
      [] text = "{\"output_dir\": \"cfgout\", \"recursive\": false, \"ocr\": false}" ->
            Returned(Dict([output_dir |-> Str(ConfigOutput), recursive |-> Bool(FALSE),
                           ocr |-> Bool(FALSE)]))
      [] OTHER -> Raised("JSONDecodeError")      \* "", "{bad", "ocr: true"

\* yaml.safe_load(text) on the same texts: every JSON text above is a YAML
\* flow document with the same value, the empty document is None, a block
\* mapping parses, and an unclosed flow mapping is a yaml.YAMLError.
YamlSafeLoad(text) ==
    CASE text = "" -> Returned(None)
      [] text = "ocr: true" -> Returned(Dict([ocr |-> Bool(TRUE)]))
      [] text = "{bad" -> Raised("YAMLError")
      [] OTHER -> JsonLoads(text)

ConfigTexts ==
    {"", "null", "{}", "[]", "[1]", "0", "7", "{bad", "ocr: true",
     "{\"ocr\": true}", "{\"recursive\": true, \"extra\": 1}",
     "{\"output_dir\": \"cfgout\"}", "{\"output_dir\": null}",
     "{\"output_dir\": \"cfgout\", \"recursive\": false, \"ocr\": false}"}

\* load_config(path), path.read_text included: the file is missing,
\* unreadable, a directory, or a readable file holding file.text.
load_config(path, file, yaml) ==
    CASE file.state = "missing" -> Raised("RuntimeError")       \* from FileNotFoundError
      [] file.state = "unreadable" -> Raised("RuntimeError")    \* from PermissionError
      [] file.state = "dir" -> Raised("IsADirectoryError")      \* an OSError, not translated
      [] OTHER ->
            IF Lower(Suffix(Name(path))) \in {"yaml", "yml"}
            THEN IF ~yaml THEN Raised("RuntimeError")           \* from ImportError
                 ELSE LET r == YamlSafeLoad(file.text)
                      IN IF r.raised = "none" THEN Returned(Or(r.val, EmptyDict)) ELSE r
            ELSE LET r == JsonLoads(file.text)
                 IN IF r.raised = "JSONDecodeError" THEN Raised("RuntimeError")
                    ELSE Returned(Or(r.val, EmptyDict))

\* the exceptions main's "except (OSError, RuntimeError)" catches
CaughtByMain(e) == e \in {"RuntimeError", "IsADirectoryError"}

\* merge_setting(cli_value, config, key, default); config.get on a value
\* that is no dict is an AttributeError
merge_setting(cli_value, cfg, key, default) ==
    IF cli_value.t # "NoneType" THEN Returned(cli_value)
    ELSE IF cfg.t # "dict" THEN Raised("AttributeError")
    ELSE IF key \in DOMAIN cfg.v THEN Returned(cfg.v[key])
    ELSE Returned(default)

\* Path(x): a TypeError unless x is a str
ToPath(r) == IF r.raised # "none" THEN r
             ELSE IF r.val.t = "str" THEN r ELSE Raised("TypeError")

DefaultOutput == <<<<"output">>>>

\* ------------------------------------------- pathlib / shutil on the tree
FsOk(f) == [raised |-> "none", fs |-> f]
FsErr(e, f) == [raised |-> e, fs |-> f]

\* Path.mkdir(parents=True, exist_ok=True)
Mkdir(f, p) ==
    IF \E q \in Prefixes(p) : IsFile(f, q)
    THEN FsErr(IF IsFile(f, p) THEN "FileExistsError" ELSE "NotADirectoryError", f)
    ELSE FsOk([q \in DOMAIN f \cup Prefixes(p) |-> IF q \in DOMAIN f THEN f[q] ELSE DirEntry])

\* shutil.copy2(src, dst): a directory dst means dst/basename(src); copying a
\* file onto itself is SameFileError; the data of src replaces what was there.
Copy2(f, src, dst) ==
    LET to == IF IsDir(f, dst) THEN Join(dst, <<Name(src)>>) ELSE dst
    IN  IF Exists(f, src) /\ src = to THEN FsErr("SameFileError", f)
        ELSE IF ~Exists(f, src) THEN FsErr("FileNotFoundError", f)
        ELSE IF IsDir(f, src) \/ IsDir(f, to) THEN FsErr("IsADirectoryError", f)
        ELSE IF ~IsDir(f, Parent(to)) THEN FsErr("FileNotFoundError", f)
        ELSE FsOk(Put(f, to, FileEntry(f[src].data)))

\* Path.unlink()
Unlink(f, p) ==
    IF IsDir(f, p) THEN FsErr("IsADirectoryError", f) ELSE FsOk(Remove(f, p))

\* Path.write_text(data)
WriteText(f, p, data) ==
    IF IsDir(f, p) THEN FsErr("IsADirectoryError", f)
    ELSE IF ~IsDir(f, Parent(p)) THEN FsErr("FileNotFoundError", f)
    ELSE FsOk(Put(f, p, FileEntry(data)))

\* Faulty variant of Glob: the pattern is "**/*" whatever the flag says.
GlobIgnoringFlag(f, path, recursive) ==
    {q \in DOMAIN f : Len(q) > Len(path) /\ IsPrefix(path, q)}

\* Path.glob("**/*" if recursive else "*")
Glob(f, path, recursive) ==
    {q \in DOMAIN f : /\ Len(q) > Len(path)
                      /\ IsPrefix(path, q)
                      /\ (recursive \/ Len(q) = Len(path) + 1)}

\* the orders in which a directory enumeration can yield the set S
Orders(S) == {s \in [1..Cardinality(S) -> S] : \A a, b \in DOMAIN s : s[a] = s[b] => a = b}

\* ------------------------------------------------------------------- LOG
Rec(level, msg, p) == [level |-> level, msg |-> msg, path |-> p]

\* detect_backend()
detect_backend == IF openvino THEN "NPU" ELSE "CPU"

\* --------------------------------------------------- the OCR placeholders
HtmlText(source) == [fmt |-> "html", src |-> source, status |-> "OCR placeholder"]
MdText(source) == [fmt |-> "md", src |-> source, status |-> "OCR placeholder"]
JsonText(source) == [fmt |-> "json", src |-> source, status |-> "placeholder"]

\* Faulty variant of write_ocr_placeholders: the duplicate is named after the
\* whole file name (a.pdf.ocr.pdf) and the Markdown sidecar names the
\* destination instead of the source.
write_ocr_placeholders_misnamed(f, output_pdf, source_pdf) ==
    LET ocr_pdf == Parent(output_pdf) \o <<Name(output_pdf) \o <<"ocr", "pdf">>>>
        r1 == IF Exists(f, ocr_pdf) THEN Unlink(f, ocr_pdf) ELSE FsOk(f)
        r2 == IF r1.raised # "none" THEN r1 ELSE Copy2(r1.fs, output_pdf, ocr_pdf)
        r3 == IF r2.raised # "none" THEN r2
              ELSE WriteText(r2.fs, WithSuffix(output_pdf, "html"), HtmlText(source_pdf))
        r4 == IF r3.raised # "none" THEN r3
              ELSE WriteText(r3.fs, WithSuffix(output_pdf, "md"), MdText(output_pdf))
    IN  IF r4.raised # "none" THEN r4
        ELSE WriteText(r4.fs, WithSuffix(output_pdf, "json"), JsonText(source_pdf))

write_ocr_placeholders(f, output_pdf, source_pdf) ==
    LET ocr_pdf == OcrPdfPath(output_pdf)
        r1 == IF Exists(f, ocr_pdf) THEN Unlink(f, ocr_pdf) ELSE FsOk(f)
        r2 == IF r1.raised # "none" THEN r1 ELSE Copy2(r1.fs, output_pdf, ocr_pdf)
        r3 == IF r2.raised # "none" THEN r2
              ELSE WriteText(r2.fs, WithSuffix(output_pdf, "html"), HtmlText(source_pdf))
        r4 == IF r3.raised # "none" THEN r3
              ELSE WriteText(r3.fs, WithSuffix(output_pdf, "md"), MdText(source_pdf))
    IN  IF r4.raised # "none" THEN r4
        ELSE WriteText(r4.fs, WithSuffix(output_pdf, "json"), JsonText(source_pdf))

\* ----------------------------------------------------------- collect_pdfs
Task(pdf, base) == [pdf_path |-> pdf, base_dir |-> base]

\* Faulty variant of IsPdfName: the suffix is compared without .lower().
IsPdfNameCaseSensitive(name) == Suffix(name) = "pdf"

IsPdfName(name) == Lower(Suffix(name)) = "pdf"

\* the candidates of one directory input that pass the filter of line 56
Matches(f, path, recursive) ==
    {c \in Glob(f, path, recursive) : IsFile(f, c) /\ IsPdfName(Name(c))}

\* main's output_path for a task
OutputPath(output_dir, task) == Join(output_dir, RelativeTo(task.pdf_path, task.base_dir))

\* ------------------------------------------------------------ initial state
N(a) == <<a>>
D == <<N("d")>>
DSub == <<N("d"), N("sub")>>
DA == <<N("d"), <<"a", "pdf">>>>
DSubA == <<N("d"), N("sub"), <<"a", "pdf">>>>
DB == <<N("d"), <<"b", "PDF">>>>
DTxt == <<N("d"), <<"a", "txt">>>>
DOcr == <<N("d"), <<"a", "ocr", "pdf">>>>
DSubB == <<N("d"), N("sub"), <<"b", "PDF">>>>

\* what may lie on disk before the run: five files, and d/sub/b.PDF, a
\* directory whose name ends in .PDF
Candidates == {DA, DSubA, DB, DTxt, DOcr, DSubB}

Tree(S) ==
    LET dirs == (UNION {Prefixes(Parent(p)) : p \in S}) \cup (S \cap {DSubB})
    IN  [q \in S \cup dirs |-> IF q \in dirs THEN DirEntry ELSE FileEntry(Bytes(q))]

Trees == {Tree(S) : S \in {T \in SUBSET Candidates : Cardinality(T) <= MaxFiles}}

InputPaths == {D, DSub, DSubA, DB, DTxt}
InputLists == UNION {[1..n -> InputPaths] : n \in 1..MaxInputs}

NoFile == [state |-> "missing", text |-> ""]
ConfigFiles == [state : {"missing", "unreadable", "dir"}, text : {""}]
                 \cup [state : {"ok"}, text : ConfigTexts]
ConfigPaths == {<<<<"c", x>>>> : x \in {"json", "yaml", "YML"}}

Args(inputs, output_dir, recursive, ocr, cfg) ==
    [inputs |-> inputs, output_dir |-> output_dir, recursive |-> recursive,
     ocr |-> ocr, config |-> cfg]

Locals ==
    /\ fs0 = fs
    /\ pc = "config"
    /\ config = EmptyDict
    /\ settings = [output_dir |-> DefaultOutput, recursive |-> Bool(FALSE), ocr |-> Bool(FALSE)]
    /\ next = 1
    /\ pdfs = <<>>
    /\ i = 1
    /\ log = <<>>
    /\ ret = <<>>
    /\ exc = "none"

\* runs over many file trees and input lists, the settings given on the
\* command line
InitFiles ==
    /\ fs \in Trees
    /\ \E inputs \in InputLists, o \in {None, Str(DSub)},
          r \in {None, Bool(TRUE)}, c \in {None, Bool(TRUE)} :
            args = Args(inputs, o, r, c, None)
    /\ cfgfile = NoFile
    /\ yaml_ok = FALSE
    /\ openvino = FALSE
    /\ Locals

\* runs over many config files and command lines, over one file tree
InitConfig ==
    /\ fs = Tree({DA, DSubA})
    /\ \E o \in {None, Str(DSub)}, r \in {None, Bool(TRUE), Bool(FALSE)},
          c \in {None, Bool(TRUE), Bool(FALSE)}, cfg \in {Str(q) : q \in ConfigPaths} :
            args = Args(<<D>>, o, r, c, cfg)
    /\ cfgfile \in ConfigFiles
    /\ yaml_ok \in BOOLEAN
    /\ openvino \in BOOLEAN
    /\ Locals

Init == InitFiles \/ InitConfig

\* ---------------------------------------------------------------- main()
\* lines 129-135
LoadConfig ==
    /\ pc = "config"
    /\ LET r == load_config(args.config.v, cfgfile, yaml_ok)
       IN  IF ~Truthy(args.config)
           THEN /\ pc' = "merge"
                /\ UNCHANGED <<config, log, ret, exc>>
           ELSE IF r.raised = "none"
           THEN /\ config' = r.val
                /\ pc' = "merge"
                /\ UNCHANGED <<log, ret, exc>>
           ELSE IF CaughtByMain(r.raised)
           THEN /\ log' = Append(log, Rec("ERROR", "Failed to load config", args.config.v))
                /\ ret' = <<1>>
                /\ pc' = "done"
                /\ UNCHANGED <<config, exc>>
           ELSE /\ exc' = r.raised
                /\ pc' = "done"
                /\ UNCHANGED <<config, log, ret>>
    /\ UNCHANGED <<args, cfgfile, yaml_ok, openvino, fs, fs0, settings, next, pdfs, i>>

\* lines 137-145
MergeSettings ==
    /\ pc = "merge"
    /\ LET o == ToPath(merge_setting(args.output_dir, config, "output_dir", Str(DefaultOutput)))
           r == merge_setting(args.recursive, config, "recursive", Bool(FALSE))
           c == merge_setting(args.ocr, config, "ocr", Bool(FALSE))
           failed == IF o.raised # "none" THEN o.raised
                     ELSE IF r.raised # "none" THEN r.raised ELSE c.raised
       IN  IF failed # "none"
           THEN /\ exc' = failed
                /\ pc' = "done"
                /\ UNCHANGED <<settings, log>>
           ELSE /\ settings' = [output_dir |-> o.val.v, recursive |-> r.val, ocr |-> c.val]
                /\ log' = Append(log, IF detect_backend = "NPU"
                                      THEN Rec("INFO", "OpenVINO detected", <<>>)
                                      ELSE Rec("WARNING", "OpenVINO not detected", <<>>))
                /\ pc' = "collect"
                /\ UNCHANGED exc
    /\ UNCHANGED <<args, cfgfile, yaml_ok, openvino, fs, fs0, config, next, pdfs, i, ret>>

\* lines 47-65: one round of collect_pdfs' loop
CollectInput ==
    /\ pc = "collect"
    /\ next <= Len(args.inputs)
    /\ LET path == args.inputs[next]
           found == Matches(fs, path, Truthy(settings.recursive))
       IN  IF ~Exists(fs, path)
           THEN /\ log' = Append(log, Rec("ERROR", "Input not found", path))
                /\ pdfs' = pdfs
           ELSE IF IsDir(fs, path)
           THEN \E order \in Orders(found) :
                /\ pdfs' = pdfs \o [k \in 1..Len(order) |-> Task(order[k], path)]
                /\ log' = IF found = {}
                          THEN Append(log, Rec("WARNING", "No PDF files found", path))
                          ELSE log
           ELSE IF ~IsPdfName(Name(path))
           THEN /\ log' = Append(log, Rec("WARNING", "Skipping non-PDF input", path))
                /\ pdfs' = pdfs
           ELSE /\ pdfs' = Append(pdfs, Task(path, Parent(path)))
                /\ log' = log
    /\ next' = next + 1
    /\ UNCHANGED <<args, cfgfile, yaml_ok, openvino, fs, fs0, pc, config, settings, i, ret, exc>>

\* Faulty variant of CollectDone: the output directory is created before the
\* collected list is tested for emptiness.
CollectDoneAfterMkdir ==
    /\ pc = "collect"
    /\ next > Len(args.inputs)
    /\ fs' = Mkdir(fs, settings.output_dir).fs
    /\ IF pdfs = <<>>
       THEN /\ log' = Append(log, Rec("ERROR", "No PDF inputs to process", <<>>))
            /\ ret' = <<1>>
            /\ pc' = "done"
       ELSE /\ pc' = "copy"
            /\ UNCHANGED <<log, ret>>
    /\ UNCHANGED <<args, cfgfile, yaml_ok, openvino, fs0, config, settings, next, pdfs, i, exc>>

\* Faulty variant of CollectDone: processing starts as soon as one task is
\* collected, the remaining inputs being left unread.
CollectDoneEarly ==
    /\ pc = "collect"
    /\ next > Len(args.inputs) \/ pdfs # <<>>
    /\ IF pdfs = <<>>
       THEN /\ log' = Append(log, Rec("ERROR", "No PDF inputs to process", <<>>))
            /\ ret' = <<1>>
            /\ pc' = "done"
       ELSE /\ pc' = "copy"
            /\ UNCHANGED <<log, ret>>
    /\ UNCHANGED <<args, cfgfile, yaml_ok, openvino, fs, fs0, config, settings, next, pdfs, i, exc>>

\* collect_pdfs returns (line 66); main tests the list (lines 148-150)
CollectDone ==
    /\ pc = "collect"
    /\ next > Len(args.inputs)
    /\ IF pdfs = <<>>
       THEN /\ log' = Append(log, Rec("ERROR", "No PDF inputs to process", <<>>))
            /\ ret' = <<1>>
            /\ pc' = "done"
       ELSE /\ pc' = "copy"
            /\ UNCHANGED <<log, ret>>
    /\ UNCHANGED <<args, cfgfile, yaml_ok, openvino, fs, fs0, config, settings, next, pdfs, i, exc>>

\* Faulty variant of copy_task: the copy lands directly in output_dir under
\* the source's name, the path relative to the base being dropped.
copy_task_flat(f, output_dir, task) ==
    LET output_path == Join(output_dir, <<Name(task.pdf_path)>>)
        made == Mkdir(f, Parent(output_path))
    IN  IF made.raised # "none" THEN made ELSE Copy2(made.fs, task.pdf_path, output_path)

\* the copy of one task (lines 153-160)
copy_task(f, output_dir, task) ==
    LET output_path == OutputPath(output_dir, task)
        made == Mkdir(f, Parent(output_path))
    IN  IF made.raised # "none" THEN made ELSE Copy2(made.fs, task.pdf_path, output_path)

CopyTask ==
    /\ pc = "copy"
    /\ i <= Len(pdfs)
    /\ LET r == copy_task(fs, settings.output_dir, pdfs[i])
       IN  /\ fs' = r.fs
           /\ IF r.raised # "none"
              THEN /\ exc' = r.raised
                   /\ pc' = "done"
                   /\ UNCHANGED <<log, i>>
              ELSE /\ log' = Append(log, Rec("INFO", "Wrote PDF", OutputPath(settings.output_dir, pdfs[i])))
                   /\ IF Truthy(settings.ocr)
                      THEN pc' = "ocr" /\ i' = i
                      ELSE pc' = "copy" /\ i' = i + 1
                   /\ UNCHANGED exc
    /\ UNCHANGED <<args, cfgfile, yaml_ok, openvino, fs0, config, settings, next, pdfs, ret>>

\* lines 163-165
OcrTask ==
    /\ pc = "ocr"
    /\ LET out == OutputPath(settings.output_dir, pdfs[i])
           r == write_ocr_placeholders(fs, out, pdfs[i].pdf_path)
       IN  /\ fs' = r.fs
           /\ IF r.raised # "none"
              THEN /\ exc' = r.raised
                   /\ pc' = "done"
                   /\ UNCHANGED <<log, i>>
              ELSE /\ log' = Append(log, Rec("INFO", "Wrote OCR placeholders for", out))
                   /\ pc' = "copy"
                   /\ i' = i + 1
                   /\ UNCHANGED exc
    /\ UNCHANGED <<args, cfgfile, yaml_ok, openvino, fs0, config, settings, next, pdfs, ret>>

\* line 167
Return0 ==
    /\ pc = "copy"
    /\ i > Len(pdfs)
    /\ ret' = <<0>>
    /\ pc' = "done"
    /\ UNCHANGED <<args, cfgfile, yaml_ok, openvino, fs, fs0, config, settings, next, pdfs, i, log, exc>>

Next == LoadConfig \/ MergeSettings \/ CollectInput \/ CollectDone \/ CopyTask \/ OcrTask \/ Return0

Spec == Init /\ [][Next]_vars

\* the runs that request no config file
SpecFiles == InitFiles /\ [][Next]_vars

\* =================================================================== claims
Tasks == {pdfs[k] : k \in 1..Len(pdfs)}
\* output_dir joined with the path of the task's source relative to its base
Out(k) ==
    settings.output_dir
        \o SubSeq(pdfs[k].pdf_path, Len(pdfs[k].base_dir) + 1, Len(pdfs[k].pdf_path))
\* <dir>/<name><ext> for the destination <dir>/<name>.pdf
Beside(dest, ext) ==
    SubSeq(dest, 1, Len(dest) - 1)
        \o <<SubSeq(dest[Len(dest)], 1, Len(dest[Len(dest)]) - 1) \o ext>>
Artifacts(dest) ==
    {Beside(dest, <<"ocr", "pdf">>), Beside(dest, <<"html">>), Beside(dest, <<"md">>),
     Beside(dest, <<"json">>)}
\* the step leaves path q as it was
Same(q) == (q \in DOMAIN fs' <=> q \in DOMAIN fs) /\ (q \in DOMAIN fs => fs'[q] = fs[q])
OcrOn == Truthy(settings.ocr)
ConfigRequested == Truthy(args.config)
ConfigLoad == load_config(args.config.v, cfgfile, yaml_ok)
CollectionOver == pc = "collect" /\ next > Len(args.inputs)

\* C1: every run of main ends with exit code 0 or 1; with 1 exactly when the
\* requested config could not be loaded or collect_pdfs returned no task;
\* otherwise every collected task is processed and the run ends with 0.
C1_ExitCodes ==
    pc = "done" =>
        /\ exc = "none"
        /\ ret \in {<<0>>, <<1>>}
        /\ ret = <<1>> <=> \/ (ConfigRequested /\ ConfigLoad.raised # "none")
                       \/ (next > Len(args.inputs) /\ pdfs = <<>>)
        /\ ret = <<0>> => i = Len(pdfs) + 1

\* C9: whenever load_config returns without failing, its result is a
\* mapping (the empty one for an empty or null document).
C9_ConfigIsMapping ==
    (pc = "merge" /\ ConfigRequested) =>
        /\ config.t = "dict"
        /\ (cfgfile.text \in {"", "null"} => config = EmptyDict)

\* C5: load_config fails with the RuntimeError main turns into exit code 1
\* when the file is missing, unreadable, syntactically invalid for its
\* format, or YAML without the yaml module; nothing else escapes.
IsYamlPath == Lower(Suffix(Name(args.config.v))) \in {"yaml", "yml"}
InvalidSyntax ==
    /\ cfgfile.state = "ok"
    /\ IF IsYamlPath THEN yaml_ok /\ YamlSafeLoad(cfgfile.text).raised # "none"
       ELSE JsonLoads(cfgfile.text).raised # "none"
C5_ConfigErrors ==
    (/\ pc # "config"
     /\ ConfigRequested
     /\ \/ cfgfile.state \in {"missing", "unreadable"}
        \/ InvalidSyntax
        \/ (cfgfile.state = "ok" /\ IsYamlPath /\ ~yaml_ok))
    => /\ ConfigLoad.raised = "RuntimeError"
       /\ ret = <<1>>
       /\ exc = "none"
       /\ log = <<Rec("ERROR", "Failed to load config", args.config.v)>>

\* C3: each effective setting is the CLI value when given, else the config's
\* value when the key is present, else the default; merging never fails.
Precedence(cli, key, default) ==
    IF cli # None THEN cli
    ELSE IF config.t = "dict" /\ key \in DOMAIN config.v THEN config.v[key]
    ELSE default
C3_Precedence ==
    /\ exc \notin {"AttributeError", "TypeError"}
    /\ pc \in {"collect", "copy", "ocr"} =>
        /\ Str(settings.output_dir) = Precedence(args.output_dir, "output_dir", Str(DefaultOutput))
        /\ settings.recursive = Precedence(args.recursive, "recursive", Bool(FALSE))
        /\ settings.ocr = Precedence(args.ocr, "ocr", Bool(FALSE))

\* C6: for a directory input d the tasks with base d are exactly the regular
\* .pdf files that are immediate children of d (recursive off) or lie at any
\* depth below d (recursive on).
DirInputs == {args.inputs[k] : k \in 1..Len(args.inputs)} \cap {q \in DOMAIN fs : fs[q].kind = "dir"}
SourcesWithBase(d) == {t.pdf_path : t \in {u \in Tasks : u.base_dir = d}}
PdfFilesBelow(d) ==
    {q \in DOMAIN fs : fs[q].kind = "file" /\ Lower(Suffix(Name(q))) = "pdf"
                       /\ Len(q) > Len(d) /\ SubSeq(q, 1, Len(d)) = d}
C6_DirectoryCollection ==
    CollectionOver =>
        \A d \in DirInputs :
            IF Truthy(settings.recursive)
            THEN SourcesWithBase(d) = PdfFilesBelow(d)
            ELSE SourcesWithBase(d) = {q \in PdfFilesBelow(d) : Len(q) = Len(d) + 1}
C6_Witness ==
    /\ CollectionOver
    /\ ~Truthy(settings.recursive)
    /\ \E d \in DirInputs :
        /\ SourcesWithBase(d) # {}
        /\ \E q \in PdfFilesBelow(d) : Len(q) > Len(d) + 1 /\ q \notin SourcesWithBase(d)
C6_WitnessRecursive ==
    /\ CollectionOver
    /\ Truthy(settings.recursive)
    /\ \E d \in DirInputs : \E q \in SourcesWithBase(d) : Len(q) > Len(d) + 1

\* C7: every collected source exists and has a .pdf extension in any case;
\* a missing or non-PDF input contributes no task and the inputs after it
\* are still collected.
Accepted(name) == name[Len(name)] \in {"pdf", "PDF"}
C7_CollectedArePdfs ==
    pc = "collect" =>
        /\ \A t \in Tasks : t.pdf_path \in DOMAIN fs /\ Accepted(Name(t.pdf_path))
        /\ \A k \in 1..(next - 1) :
            LET path == args.inputs[k]
            IN  /\ (path \notin DOMAIN fs \/ (fs[path].kind = "file" /\ ~Accepted(Name(path))))
                    => \A t \in Tasks : t.pdf_path # path
                /\ (path \in DOMAIN fs /\ fs[path].kind = "file" /\ Accepted(Name(path)))
                    => \E t \in Tasks : t.pdf_path = path /\ t.base_dir = Parent(path)
C7_Witness ==
    /\ CollectionOver
    /\ Len(args.inputs) = 2
    /\ args.inputs[1] \notin DOMAIN fs
    /\ args.inputs[2] = DB
    /\ \E t \in Tasks : t.pdf_path = DB

\* C8: a run that ends with exit code 1 has written no file and created no
\* directory.
C8_FailureWritesNothing == ret = <<1>> => fs = fs0
C8_Witness == ret = <<1>> /\ pdfs = <<>> /\ next > Len(args.inputs) /\ DOMAIN fs # {}
C8_WitnessConfig == ret = <<1>> /\ ConfigRequested /\ ConfigLoad.raised = "RuntimeError"

\* C2 (as claimed): whenever main returns 0, for every collected task the
\* file at output_dir/relative exists and holds the content of its source.
C2_EveryDestinationHoldsSource ==
    ret = <<0>> =>
        \A k \in 1..Len(pdfs) :
            /\ Out(k) \in DOMAIN fs
            /\ fs[Out(k)].kind = "file"
            /\ fs[Out(k)].data = fs[pdfs[k].pdf_path].data

\* the paths the processing of task j can write to: its destination (or, the
\* destination being a directory, the source's name inside it) and, with
\* OCR on, its four artifacts
TaskWrites(j) ==
    {Out(j), Out(j) \o <<Name(pdfs[j].pdf_path)>>}
    \cup (IF OcrOn THEN Artifacts(Out(j)) ELSE {})

Undisturbed(k) ==
    /\ ~(Out(k) \in DOMAIN fs /\ fs[Out(k)].kind = "dir")
    /\ \A j \in 1..Len(pdfs) :
        /\ pdfs[j].pdf_path # pdfs[k].pdf_path => Out(k) \notin TaskWrites(j)
        /\ pdfs[k].pdf_path \notin TaskWrites(j)

\* C2 (amended): whenever main returns 0, for every collected task whose
\* destination is not a directory, is written to by no task with another
\* source, and whose source no task of the run writes to, the file at
\* output_dir/relative exists and holds the content of its source.
C2_UndisturbedDestinationHoldsSource ==
    ret = <<0>> =>
        \A k \in 1..Len(pdfs) :
            Undisturbed(k) =>
                /\ Out(k) \in DOMAIN fs
                /\ fs[Out(k)].kind = "file"
                /\ fs[Out(k)].data = fs[pdfs[k].pdf_path].data
                /\ fs[Out(k)].data = fs0[pdfs[k].pdf_path].data

\* two tasks, OCR on, a destination that replaced an older file
C2_Witness ==
    /\ ret = <<0>>
    /\ OcrOn
    /\ Len(pdfs) >= 2
    /\ \E k \in 1..Len(pdfs) :
        /\ Undisturbed(k)
        /\ Out(k) \in DOMAIN fs0
        /\ fs[Out(k)] # fs0[Out(k)]
    /\ \E k \in 1..Len(pdfs) : ~Undisturbed(k)

\* C4: with OCR requested, each processed task with destination
\* <dir>/<name>.pdf gets exactly <name>.ocr.pdf, a copy of the destination
\* PDF, and <name>.html, <name>.md, <name>.json, placeholders naming the
\* task's source; with OCR not requested none of the four is written.
Placeholder(fmt, k) ==
    [fmt |-> fmt, src |-> pdfs[k].pdf_path,
     status |-> IF fmt = "json" THEN "placeholder" ELSE "OCR placeholder"]
C4_OcrArtifacts ==
    [][/\ (pc = "copy" /\ pc' \in {"copy", "ocr"}) =>
            IF OcrOn THEN pc' = "ocr" /\ i' = i
            ELSE pc' = "copy" /\ \A q \in Artifacts(Out(i)) : Same(q)
       /\ (pc = "ocr" /\ pc' = "copy") =>
            /\ OcrOn
            /\ Artifacts(Out(i)) \subseteq DOMAIN fs'
            /\ fs'[Beside(Out(i), <<"ocr", "pdf">>)] = fs'[Out(i)]
            /\ fs'[Out(i)].kind = "file"
            /\ fs'[Beside(Out(i), <<"html">>)] = [kind |-> "file", data |-> Placeholder("html", i)]
            /\ fs'[Beside(Out(i), <<"md">>)] = [kind |-> "file", data |-> Placeholder("md", i)]
            /\ fs'[Beside(Out(i), <<"json">>)] = [kind |-> "file", data |-> Placeholder("json", i)]
            /\ \A q \in (DOMAIN fs \cup DOMAIN fs') \ Artifacts(Out(i)) : Same(q)
      ]_vars
C4_Witness ==
    /\ pc = "copy"
    /\ OcrOn
    /\ i = 3
    /\ Artifacts(Out(1)) \cup Artifacts(Out(2)) \subseteq DOMAIN fs
    /\ Out(1) = <<<<"output">>, <<"b", "PDF">>>>
    /\ Cardinality(Artifacts(Out(1)) \cup Artifacts(Out(2))) = 8
C4_WitnessOff == ret = <<0>> /\ ~OcrOn /\ Len(pdfs) = 2

\* C10: collection ends before the first write; tasks are then processed one
\* at a time in collection order, a task's copy before its OCR artifacts and
\* all its writes before the next task's copy; no file this run wrote is
\* collected by it.
IsWrite(r) == r.msg \in {"Wrote PDF", "Wrote OCR placeholders for"}
Written == SelectSeq(log, IsWrite)
\* the m-th write record of a run that processes its tasks in order
Expected(m) ==
    IF OcrOn
    THEN IF m % 2 = 1 THEN [level |-> "INFO", msg |-> "Wrote PDF", path |-> Out((m + 1) \div 2)]
         ELSE [level |-> "INFO", msg |-> "Wrote OCR placeholders for", path |-> Out(m \div 2)]
    ELSE [level |-> "INFO", msg |-> "Wrote PDF", path |-> Out(m)]
InOrder ==
    /\ Len(Written) <= (IF OcrOn THEN 2 ELSE 1) * Len(pdfs)
    /\ \A m \in 1..Len(Written) : Written[m] = Expected(m)
    /\ pc \in {"copy", "ocr"} =>
        Len(Written) = (IF OcrOn THEN 2 * (i - 1) ELSE i - 1) + (IF pc = "ocr" THEN 1 ELSE 0)
    /\ pc \in {"config", "merge", "collect"} => fs = fs0 /\ Written = <<>>
    /\ \A t \in Tasks : t.pdf_path \in DOMAIN fs0 /\ fs0[t.pdf_path].kind = "file"
C10_Sequential ==
    /\ []InOrder
    /\ [][/\ fs' # fs => /\ next > Len(args.inputs)
                         /\ pdfs' = pdfs
                         /\ pc \in {"copy", "ocr"}
                         /\ i \in 1..Len(pdfs)
          /\ (fs' # fs /\ pc = "copy") =>
                \A q \in (DOMAIN fs \cup DOMAIN fs') :
                    \/ Same(q)
                    \/ q \in {Out(i), Out(i) \o <<pdfs[i].pdf_path[Len(pdfs[i].pdf_path)]>>}
                    \/ (fs'[q].kind = "dir" /\ Len(q) < Len(Out(i)) /\ SubSeq(Out(i), 1, Len(q)) = q)
          /\ (fs' # fs /\ pc = "ocr") =>
                \A q \in (DOMAIN fs \cup DOMAIN fs') : Same(q) \/ q \in Artifacts(Out(i))
          /\ pdfs' # pdfs => fs' = fs /\ fs = fs0 /\ pc = "collect"
          /\ i' \in {i, i + 1}
         ]_vars
\* the output directory lies inside the input directory, and the second
\* task's source is a path the first task's copy has written
C10_Witness ==
    /\ ret = <<0>>
    /\ OcrOn
    /\ Len(pdfs) = 2
    /\ args.inputs = <<D>>
    /\ settings.output_dir = DSub
    /\ Out(1) = pdfs[2].pdf_path
====
